---- MODULE Spec2Model ----
(***************************************************************************)
(* Static path generation of the blog's tag pages                          *)
(* (src/src/pages/tag/[tag].astro, getStaticPaths, lines 45-84) together   *)
(* with the comparator byDate (src/unnamed/part_006) and the content       *)
(* schema (src/unnamed/part_011), getStaticPaths of the blog post page     *)
(* (src/src/pages/blog/[...slug].astro, lines 5-22) and GET of the RSS     *)
(* feed (src/unnamed/part_005) and the list item of a blog                 *)
(* (src/src/components/blog-item.ts, blog-list.ts).  One build computes    *)
(* the blog post paths, the feed, a list of blog items and the tag pages   *)
(* from the same collection and build mode; they do not share mutable      *)
(* state, they are modelled in that order.                                 *)
(*                                                                         *)
(* A JavaScript string is a sequence of UTF-16 code units; a code unit is  *)
(* written here as a one-letter TLA+ string, except KELVIN, which stands   *)
(* for the single code unit U+212A (KELVIN SIGN).                          *)
(***************************************************************************)
EXTENDS Integers, Sequences, FiniteSets, TLC

VARIABLES
    frontMatter,\* the front matter of the content files, in collection order
    allBlogs,   \* the collection getCollection("blogs") resolves to
    PROD,       \* import.meta.env.PROD
    pc,         \* position inside getStaticPaths
    tags,       \* the local Set<string>, in insertion order
    j,          \* index of the tag the for-of loop visits next
    paths,      \* the local array paths
    error,      \* the exception that ended the call, or "none"
    last,       \* outcome of the previous completed call, or NoCall
    blogPaths,  \* what getStaticPaths of the blog post page returned
    feedItems,  \* the items GET of the feed hands to rss()
    items       \* the list items BlogList rendered

vars == <<frontMatter, allBlogs, PROD, pc, tags, j, paths, error, last,
          blogPaths, feedItems, items>>

----------------------------------------------------------------------------
(* Bounds of the model *)

\* records in the collection
MaxBlogs == 2

----------------------------------------------------------------------------
(* Code units and String.prototype.toLowerCase *)

UpperAscii == <<"A","B","C","D","E","F","G","H","I","J","K","L","M",
                "N","O","P","Q","R","S","T","U","V","W","X","Y","Z">>

LowerAscii == <<"a","b","c","d","e","f","g","h","i","j","k","l","m",
                "n","o","p","q","r","s","t","u","v","w","x","y","z">>

IndexIn(seq, c) ==
    IF \E n \in DOMAIN seq : seq[n] = c
    THEN CHOOSE n \in DOMAIN seq : seq[n] = c
    ELSE 0

\* toLowerCase of one code unit: A-Z map to a-z, U+212A maps to "k"
\* (its Unicode lowercase mapping), everything else is unchanged.
ToLowerUnit(c) ==
    IF c = "KELVIN" THEN "k"
    ELSE IF IndexIn(UpperAscii, c) # 0 THEN LowerAscii[IndexIn(UpperAscii, c)]
    ELSE c

\* the code units the strings of this model are written with
Units ==
    { UpperAscii[n] : n \in DOMAIN UpperAscii } \cup
    { LowerAscii[n] : n \in DOMAIN LowerAscii } \cup
    { "KELVIN", ".", "+", "(" }

\* ToLowerUnit, tabulated
LowerTable == [c \in Units |-> ToLowerUnit(c)]

\* a tag added as written
IdentityCase(s) == s

ToLowerCase(s) == [n \in DOMAIN s |-> LowerTable[s[n]]]

----------------------------------------------------------------------------
(* new RegExp(pattern, "i") and String.prototype.match                     *)
(*                                                                         *)
(* The pattern grammar is modelled for the code units the tags of this     *)
(* model are written with: letters are pattern characters, "." is the     *)
(* any-character atom, "+" is the one-or-more quantifier and "(" opens a   *)
(* group (no tag here holds ")", so a group is never closed).              *)

SyntaxErr == [ok |-> FALSE, terms |-> <<>>]

RECURSIVE ParseTerms(_, _, _)
ParseTerms(p, n, acc) ==
    IF n > Len(p) THEN [ok |-> TRUE, terms |-> acc]
    ELSE IF p[n] = "(" THEN SyntaxErr            \* Unterminated group
    ELSE IF p[n] = "+" THEN SyntaxErr            \* Nothing to repeat
    ELSE IF n < Len(p) /\ p[n + 1] = "+"
         THEN ParseTerms(p, n + 2, Append(acc, [atom |-> p[n], plus |-> TRUE]))
         ELSE ParseTerms(p, n + 1, Append(acc, [atom |-> p[n], plus |-> FALSE]))

\* new RegExp(pattern, "i"): the compiled terms, or a SyntaxError
RegExp(pattern) == ParseTerms(pattern, 1, <<>>)

\* Canonicalize of a code unit under the i flag without the u flag
\* (ECMA-262, Canonicalize): the upper-case mapping when it is one code
\* unit, except that a code unit >= 128 never folds to one < 128; U+212A
\* is its own upper case, so it stays apart from "k" and "K".
Canonicalize(c) ==
    IF IndexIn(LowerAscii, c) # 0 THEN UpperAscii[IndexIn(LowerAscii, c)]
    ELSE c

\* Canonicalize, tabulated
CanonTable == [c \in Units |-> Canonicalize(c)]

AtomMatches(atom, c) ==
    \/ atom = "."
    \/ CanonTable[atom] = CanonTable[c]

RECURSIVE MatchHere(_, _, _, _)
MatchHere(terms, k, s, pos) ==
    IF k > Len(terms) THEN TRUE
    ELSE IF pos > Len(s) THEN FALSE
    ELSE IF ~AtomMatches(terms[k].atom, s[pos]) THEN FALSE
    ELSE \/ MatchHere(terms, k + 1, s, pos + 1)
         \/ terms[k].plus /\ MatchHere(terms, k, s, pos + 1)

\* s.match(re) is truthy: the unanchored search finds a match somewhere
Matches(s, re) == \E pos \in 1..(Len(s) + 1) : MatchHere(re.terms, 1, s, pos)

----------------------------------------------------------------------------
(* The content collection (schema of src/unnamed/part_011)                 *)

Angular   == <<"A","n","g","u","l","a","r">>
angular   == <<"a","n","g","u","l","a","r">>
React     == <<"R","e","a","c","t">>
AngularJS == <<"A","n","g","u","l","a","r","J","S">>
ang       == <<"a","n","g">>
Cpp       == <<"c","+","+">>
AParenB   == <<"a","(","b">>
KelvinTag == <<"KELVIN">>

\* the tags lists a record's front matter may declare
TagLists ==
    { <<>>, <<Angular>>, <<angular, React>>, <<ang>>, <<Cpp>>, <<KelvinTag>> }

\* publishedAt.getTime(), here the year
PublishedAts == {2023, 2024}

BlogData == [tags : TagLists, publishedAt : PublishedAts, draft : BOOLEAN]

\* a schema that takes a record without draft for a draft
SchemaParseDraftByDefault(fm) ==
    [tags        |-> IF "tags" \in DOMAIN fm THEN fm.tags ELSE <<>>,
     publishedAt |-> fm.publishedAt,
     draft       |-> IF "draft" \in DOMAIN fm THEN fm.draft ELSE TRUE]

\* part_011 lines 5-11: the schema applied to the front matter of one file,
\* a record that has publishedAt and may lack tags and draft
SchemaParse(fm) ==
    [tags        |-> IF "tags" \in DOMAIN fm THEN fm.tags ELSE <<>>,
     publishedAt |-> fm.publishedAt,
     draft       |-> IF "draft" \in DOMAIN fm THEN fm.draft ELSE FALSE]

\* the collection whose entries carry the data d[1], ..., d[n]; an entry's
\* slug is unique (its position here)
Collection(d) == [k \in DOMAIN d |-> [slug |-> k, data |-> d[k]]]

\* the records A, B, C of the spec's scenario
ScenarioR ==
    << [slug |-> 1, data |-> [tags |-> <<Angular>>, publishedAt |-> 2023, draft |-> FALSE]],
       [slug |-> 2, data |-> [tags |-> <<angular, React>>, publishedAt |-> 2024, draft |-> FALSE]],
       [slug |-> 3, data |-> [tags |-> <<Angular>>, publishedAt |-> 2022, draft |-> TRUE]] >>

\* a collection of one record tagged "a(b"
ParenR ==
    << [slug |-> 1, data |-> [tags |-> <<AParenB>>, publishedAt |-> 2023, draft |-> FALSE]] >>

\* a record tagged "angular" next to one tagged only "AngularJS"
AngularJSR ==
    << [slug |-> 1, data |-> [tags |-> <<angular>>, publishedAt |-> 2023, draft |-> FALSE]],
       [slug |-> 2, data |-> [tags |-> <<AngularJS>>, publishedAt |-> 2024, draft |-> FALSE]] >>

APlusB == <<"a","+","b">>

\* a collection of one record tagged "a+b"
APlusBR ==
    << [slug |-> 1, data |-> [tags |-> <<APlusB>>, publishedAt |-> 2023, draft |-> FALSE]] >>

\* two records of the same date, each tagged "Angular" and "angular"
DoubleTagR ==
    << [slug |-> 1, data |-> [tags |-> <<Angular, angular>>, publishedAt |-> 2023, draft |-> FALSE]],
       [slug |-> 2, data |-> [tags |-> <<Angular, angular>>, publishedAt |-> 2023, draft |-> TRUE]] >>

Scenarios == {ScenarioR, ParenR, AngularJSR, APlusBR, DoubleTagR}

\* front matters that leave tags or draft out
OmittingFrontMatters ==
    { << [publishedAt |-> 2023] >>,
      << [tags |-> <<Angular>>, publishedAt |-> 2023],
         [publishedAt |-> 2024, draft |-> FALSE],
         [publishedAt |-> 2022] >>,
      << [tags |-> <<angular, React>>, publishedAt |-> 2024],
         [publishedAt |-> 2023, draft |-> TRUE] >> }

----------------------------------------------------------------------------
(* getStaticPaths of the tag page                                          *)

NoCall == [kind |-> "none"]

\* an add that does not look for the value first
SetAddAlways(set, x) == Append(set, x)

\* Set.prototype.add: insertion order is kept, a present value is not added
SetAdd(set, x) ==
    IF \E n \in DOMAIN set : set[n] = x THEN set ELSE Append(set, x)

\* blog.data.tags.forEach((tag) => tags.add(tag.toLowerCase()))
RECURSIVE AddTagsOf(_, _, _)
AddTagsOf(set, blogTags, n) ==
    IF n > Len(blogTags) THEN set
    ELSE AddTagsOf(SetAdd(set, ToLowerCase(blogTags[n])), blogTags, n + 1)

\* an enumeration that leaves the tags of draft records out
RECURSIVE EnumeratePublished(_, _, _)
EnumeratePublished(set, blogs, n) ==
    IF n > Len(blogs) THEN set
    ELSE IF blogs[n].data.draft THEN EnumeratePublished(set, blogs, n + 1)
    ELSE EnumeratePublished(AddTagsOf(set, blogs[n].data.tags, 1), blogs, n + 1)

\* allBlogs.forEach(...), lines 49-53
RECURSIVE EnumerateFrom(_, _, _)
EnumerateFrom(set, blogs, n) ==
    IF n > Len(blogs) THEN set
    ELSE EnumerateFrom(AddTagsOf(set, blogs[n].data.tags, 1), blogs, n + 1)

\* a loop without the draft test
SkippedNever(blog, prod) == FALSE

\* a draft test that does not read the build mode
SkippedInEveryMode(blog, prod) == blog.data.draft

\* if (blog.data.draft && import.meta.env.PROD) continue;
Skipped(blog, prod) == blog.data.draft /\ prod

\* the record's tag as the pattern and the page's tag as the subject
HasTagReversed(blog, tag) ==
    \E n \in DOMAIN blog.data.tags : Matches(tag, RegExp(blog.data.tags[n]))

\* every() in the place of some(): true of an empty tags list
HasTagEvery(blog, tag) ==
    \A n \in DOMAIN blog.data.tags : Matches(blog.data.tags[n], RegExp(tag))

\* blog.data.tags.some((blogTag) => blogTag.match(new RegExp(tag, "i")))
HasTag(blog, tag) ==
    \E n \in DOMAIN blog.data.tags : Matches(blog.data.tags[n], RegExp(tag))

\* The callback of some() runs, and so new RegExp(tag, "i") is evaluated,
\* for the first tag of every blog that is not skipped.
Throws(blogs, tag, prod) ==
    /\ ~RegExp(tag).ok
    /\ \E n \in DOMAIN blogs : ~Skipped(blogs[n], prod) /\ blogs[n].data.tags # <<>>

\* a loop that ends at the first draft in production mode (break for continue)
RECURSIVE FilterBlogsBreakOnDraft(_, _, _, _)
FilterBlogsBreakOnDraft(blogs, tag, prod, n) ==
    IF n > Len(blogs) THEN <<>>
    ELSE IF Skipped(blogs[n], prod) THEN <<>>
    ELSE IF HasTag(blogs[n], tag)
         THEN <<blogs[n]>> \o FilterBlogsBreakOnDraft(blogs, tag, prod, n + 1)
         ELSE FilterBlogsBreakOnDraft(blogs, tag, prod, n + 1)

\* the blog pushed once for each of its tags that matches
RECURSIVE PushPerMatch(_, _, _)
PushPerMatch(blog, tag, m) ==
    IF m > Len(blog.data.tags) THEN <<>>
    ELSE IF Matches(blog.data.tags[m], RegExp(tag))
         THEN <<blog>> \o PushPerMatch(blog, tag, m + 1)
         ELSE PushPerMatch(blog, tag, m + 1)

\* a loop that pushes inside the callback of some()
RECURSIVE FilterBlogsPerMatchingTag(_, _, _, _)
FilterBlogsPerMatchingTag(blogs, tag, prod, n) ==
    IF n > Len(blogs) THEN <<>>
    ELSE IF ~Skipped(blogs[n], prod)
         THEN PushPerMatch(blogs[n], tag, 1)
              \o FilterBlogsPerMatchingTag(blogs, tag, prod, n + 1)
         ELSE FilterBlogsPerMatchingTag(blogs, tag, prod, n + 1)

\* the inner for loop, lines 63-73
RECURSIVE FilterBlogs(_, _, _, _)
FilterBlogs(blogs, tag, prod, n) ==
    IF n > Len(blogs) THEN <<>>
    ELSE IF ~Skipped(blogs[n], prod) /\ HasTag(blogs[n], tag)
         THEN <<blogs[n]>> \o FilterBlogs(blogs, tag, prod, n + 1)
         ELSE FilterBlogs(blogs, tag, prod, n + 1)

\* the comparator with its operands exchanged
byDateAscending(a, b) == a.data.publishedAt - b.data.publishedAt

byDate(a, b) == b.data.publishedAt - a.data.publishedAt

\* a sort that puts e in front of the elements it ties with
InsertSortedBeforeTies(sorted, e) ==
    LET k == Cardinality({n \in DOMAIN sorted : byDate(sorted[n], e) < 0})
    IN  SubSeq(sorted, 1, k) \o <<e>> \o SubSeq(sorted, k + 1, Len(sorted))

\* Array.prototype.sort(byDate): a stable sort; e goes behind every element
\* the comparator does not put after it
InsertSorted(sorted, e) ==
    LET k == Cardinality({n \in DOMAIN sorted : byDate(sorted[n], e) <= 0})
    IN  SubSeq(sorted, 1, k) \o <<e>> \o SubSeq(sorted, k + 1, Len(sorted))

RECURSIVE ArraySort(_)
ArraySort(arr) ==
    IF arr = <<>> THEN <<>>
    ELSE InsertSorted(ArraySort(SubSeq(arr, 1, Len(arr) - 1)), arr[Len(arr)])

\* lines 61-80: the path entry of one tag
TagPath(blogs, tag, prod) ==
    [props  |-> [blogs |-> ArraySort(FilterBlogs(blogs, tag, prod, 1))],
     params |-> [tag |-> tag]]

\* lines 45-84 as one function of the collection and the build mode: what a
\* call returns, or that it throws
GetStaticPaths(blogs, prod) ==
    LET ts == EnumerateFrom(<<>>, blogs, 1)
    IN  IF \E k \in DOMAIN ts : Throws(blogs, ts[k], prod)
        THEN [kind |-> "thrown", paths |-> <<>>]
        ELSE [kind |-> "returned",
              paths |-> [k \in DOMAIN ts |-> TagPath(blogs, ts[k], prod)]]

\* a draft test of the blog post page that does not read the build mode
BlogSkippedInEveryMode(blogEntry, prod) == blogEntry.data.draft

\* [...slug].astro line 14: if (blogEntry.data.draft && import.meta.env.PROD) continue;
BlogSkipped(blogEntry, prod) == blogEntry.data.draft /\ prod

\* [...slug].astro lines 13-19: the for loop over blogEntries
RECURSIVE BlogPathsFrom(_, _, _)
BlogPathsFrom(blogEntries, prod, n) ==
    IF n > Len(blogEntries) THEN <<>>
    ELSE IF BlogSkipped(blogEntries[n], prod)
         THEN BlogPathsFrom(blogEntries, prod, n + 1)
         ELSE << [params |-> [slug |-> blogEntries[n].slug],
                  props  |-> [entry |-> blogEntries[n], isProduction |-> prod]] >>
              \o BlogPathsFrom(blogEntries, prod, n + 1)

\* a feed without the draft filter
InFeedAlways(blog) == TRUE

\* part_005 line 11: .filter((blog) => !blog.data.draft)
InFeed(blog) == ~blog.data.draft

\* part_005 lines 10-17: blogs.filter(...).map(...); an item's link ends in
\* the slug, its pubDate is publishedAt
RECURSIVE FeedItemsFrom(_, _)
FeedItemsFrom(blogs, n) ==
    IF n > Len(blogs) THEN <<>>
    ELSE IF InFeed(blogs[n])
         THEN << [link |-> blogs[n].slug, pubDate |-> blogs[n].data.publishedAt] >>
              \o FeedItemsFrom(blogs, n + 1)
         ELSE FeedItemsFrom(blogs, n + 1)

\* blog-item.ts line 18: blog.tags[0].toLowerCase(); element 0 of an empty
\* array is undefined, and the call on it throws a TypeError
TypeError == <<"TypeError">>

FirstTagLower(blogTags) ==
    IF blogTags = <<>> THEN TypeError ELSE ToLowerCase(blogTags[1])

\* the Frontmatter a list item is given for a record
Frontmatter(r) ==
    [slug |-> r.slug, tags |-> r.data.tags, publishedAt |-> r.data.publishedAt]

\* a list item without the *ngIf guard
BlogItemUnguarded(blog) ==
    [tagLink |-> <<FirstTagLower(blog.tags)>>, postLink |-> blog.slug]

\* blog-item.ts lines 15-27: the links of one list item; tagLink holds the
\* target of the primary-tag link when *ngIf="blog.tags.length" renders it
BlogItem(blog) ==
    [tagLink  |-> IF Len(blog.tags) # 0 THEN <<FirstTagLower(blog.tags)>> ELSE <<>>,
     postLink |-> blog.slug]

\* blog-list.ts lines 9-11: one list item per blog, in order
BlogList(blogs) == [k \in DOMAIN blogs |-> BlogItem(blogs[k])]

Init ==
    /\ \/ \E n \in 0..MaxBlogs : \E d \in [1..n -> BlogData] : frontMatter = d
       \/ \E R \in Scenarios : frontMatter = [k \in DOMAIN R |-> R[k].data]
       \/ frontMatter \in OmittingFrontMatters
    /\ allBlogs = Collection([k \in DOMAIN frontMatter |-> SchemaParse(frontMatter[k])])
    /\ items = <<>>
    /\ PROD \in BOOLEAN
    /\ pc = "blogPage"
    /\ tags = <<>>
    /\ j = 1
    /\ paths = <<>>
    /\ error = "none"
    /\ last = NoCall
    /\ blogPaths = <<>>
    /\ feedItems = <<>>

\* [...slug].astro lines 5-22: getStaticPaths of the blog post page
BlogGetStaticPaths ==
    /\ pc = "blogPage"
    /\ blogPaths' = BlogPathsFrom(allBlogs, PROD, 1)
    /\ pc' = "feed"
    /\ UNCHANGED <<frontMatter, items, allBlogs, PROD, tags, j, paths, error, last, feedItems>>

\* part_005 lines 4-20: GET of the feed
FeedGET ==
    /\ pc = "feed"
    /\ feedItems' = FeedItemsFrom(allBlogs, 1)
    /\ pc' = "list"
    /\ UNCHANGED <<frontMatter, items, allBlogs, PROD, tags, j, paths, error, last, blogPaths>>

\* blog-list.ts: BlogList rendered over the records of the collection
RenderBlogList ==
    /\ pc = "list"
    /\ items' = BlogList([k \in DOMAIN allBlogs |-> Frontmatter(allBlogs[k])])
    /\ pc' = "enumerate"
    /\ UNCHANGED <<frontMatter, allBlogs, PROD, tags, j, paths, error, last,
                   blogPaths, feedItems>>

\* lines 46-53: the tag set is filled from every blog of the collection
EnumerateTags ==
    /\ pc = "enumerate"
    /\ tags' = EnumerateFrom(tags, allBlogs, 1)
    /\ pc' = "pages"
    /\ UNCHANGED <<frontMatter, items, allBlogs, PROD, j, paths, error, last, blogPaths, feedItems>>

\* an iteration that sorts the collection itself before it filters
BuildTagPageSortingInput ==
    /\ pc = "pages"
    /\ j <= Len(tags)
    /\ ~Throws(allBlogs, tags[j], PROD)
    /\ allBlogs' = ArraySort(allBlogs)
    /\ paths' = Append(paths, TagPath(allBlogs', tags[j], PROD))
    /\ j' = j + 1
    /\ UNCHANGED <<frontMatter, items, PROD, pc, tags, error, last, blogPaths, feedItems>>

\* lines 60-81, one iteration of for (const tag of tags.values())
BuildTagPage ==
    /\ pc = "pages"
    /\ j <= Len(tags)
    /\ ~Throws(allBlogs, tags[j], PROD)
    /\ paths' = Append(paths, TagPath(allBlogs, tags[j], PROD))
    /\ j' = j + 1
    /\ UNCHANGED <<frontMatter, items, allBlogs, PROD, pc, tags, error, last, blogPaths, feedItems>>

\* line 67: new RegExp(tag, "i") throws, the call ends with the exception
ThrowSyntaxError ==
    /\ pc = "pages"
    /\ j <= Len(tags)
    /\ Throws(allBlogs, tags[j], PROD)
    /\ pc' = "thrown"
    /\ error' = "SyntaxError"
    /\ last' = [kind |-> "thrown", paths |-> <<>>]
    /\ UNCHANGED <<frontMatter, items, allBlogs, PROD, tags, j, paths, blogPaths, feedItems>>

\* line 83: return paths
Return ==
    /\ pc = "pages"
    /\ j > Len(tags)
    /\ pc' = "returned"
    /\ last' = [kind |-> "returned", paths |-> paths]
    /\ UNCHANGED <<frontMatter, items, allBlogs, PROD, tags, j, paths, error, blogPaths, feedItems>>

\* a call whose paths array outlives the call
CallAgainKeepingPaths ==
    /\ pc \in {"returned", "thrown"}
    /\ pc' = "enumerate"
    /\ tags' = <<>>
    /\ j' = 1
    /\ error' = "none"
    /\ UNCHANGED <<frontMatter, items, allBlogs, PROD, paths, last, blogPaths, feedItems>>

\* lines 45-58: getStaticPaths is called again; its locals are fresh
CallAgain ==
    /\ pc \in {"returned", "thrown"}
    /\ pc' = "enumerate"
    /\ tags' = <<>>
    /\ j' = 1
    /\ paths' = <<>>
    /\ error' = "none"
    /\ UNCHANGED <<frontMatter, items, allBlogs, PROD, last, blogPaths, feedItems>>

Next ==
    \/ BlogGetStaticPaths
    \/ FeedGET
    \/ RenderBlogList
    \/ EnumerateTags
    \/ BuildTagPage
    \/ ThrowSyntaxError
    \/ Return
    \/ CallAgain

Spec == Init /\ [][Next]_vars

----------------------------------------------------------------------------
(* Vocabulary of the properties *)

Elems(seq) == { seq[n] : n \in DOMAIN seq }

\* { lower(t) : r in R, t in r.tags }
LowerTagSet(R) ==
    UNION { { ToLowerCase(R[n].data.tags[m]) : m \in DOMAIN R[n].data.tags }
            : n \in DOMAIN R }

Finished == pc \in {"returned", "thrown"}

Enumerated == pc \in {"pages", "returned", "thrown"}

\* a occurs in b as a contiguous run of code units
IsSubstring(a, b) ==
    \E k \in 0..(Len(b) - Len(a)) : SubSeq(b, k + 1, k + Len(a)) = a

MetaUnits == {".", "+", "("}

NoMeta(g) == \A n \in DOMAIN g : g[n] \notin MetaUnits

\* the regex built from g finds a match in some tag of r
TagMatched(r, g) ==
    /\ RegExp(g).ok
    /\ \E m \in DOMAIN r.data.tags : Matches(r.data.tags[m], RegExp(g))

----------------------------------------------------------------------------
\* C1: once the enumeration loop has run, the tag set holds exactly the
\* lower-cased tags of all records, drafts included, each of them once.
C1_EnumerateTagsExact ==
    Enumerated =>
        /\ Elems(tags) = LowerTagSet(allBlogs)
        /\ Len(tags) = Cardinality(LowerTagSet(allBlogs))

\* a draft record contributed a tag no other record has, and two records'
\* tags collapsed into one lower-cased element
C1_Witness ==
    /\ pc = "pages"
    /\ \E n \in DOMAIN allBlogs :
          /\ allBlogs[n].data.draft
          /\ allBlogs[n].data.tags # <<>>
          /\ \A k \in DOMAIN allBlogs : k # n =>
                Elems(allBlogs[k].data.tags) \cap Elems(allBlogs[n].data.tags) = {}
    /\ \E n \in DOMAIN allBlogs : \E m \in DOMAIN allBlogs[n].data.tags :
          allBlogs[n].data.tags[m] \notin Elems(tags)

\* C2: in production mode every record of every generated listing is not a
\* draft, and in every mode it has a tag the regex built from the page's tag
\* finds a match in.
C2_ListedPublishedAndMatching ==
    \A e \in DOMAIN paths : \A r \in Elems(paths[e].props.blogs) :
        /\ PROD => ~r.data.draft
        /\ TagMatched(r, paths[e].params.tag)

\* production mode: a page lists a record while a draft with a matching tag
\* is in the collection
C2_Witness ==
    /\ PROD
    /\ \E e \in DOMAIN paths :
          /\ paths[e].props.blogs # <<>>
          /\ \E n \in DOMAIN allBlogs :
                /\ allBlogs[n].data.draft
                /\ TagMatched(allBlogs[n], paths[e].params.tag)

\* C3: the records of a listing are exactly the records that are not
\* (draft and production) and have a tag matched by the page's tag.
C3_ListingExactSet ==
    \A e \in DOMAIN paths :
        Elems(paths[e].props.blogs) =
            { r \in Elems(allBlogs) :
                /\ ~(r.data.draft /\ PROD)
                /\ TagMatched(r, paths[e].params.tag) }

\* outside production mode a listing holds a draft record
C3_Witness ==
    /\ ~PROD
    /\ \E e \in DOMAIN paths : \E r \in Elems(paths[e].props.blogs) : r.data.draft

\* C4: every listing is in descending publishedAt order.
C4_ListingDescending ==
    \A e \in DOMAIN paths :
        LET blogs == paths[e].props.blogs
        IN  \A a, b \in DOMAIN blogs :
                a < b => blogs[a].data.publishedAt >= blogs[b].data.publishedAt

\* the sort moved a later record of the collection in front of an earlier one
C4_Witness ==
    \E e \in DOMAIN paths :
        LET blogs == paths[e].props.blogs
        IN  \E a, b \in DOMAIN blogs :
                /\ a < b
                /\ blogs[a].slug > blogs[b].slug
                /\ blogs[a].data.publishedAt > blogs[b].data.publishedAt

\* C5: for a page tag g without regex metacharacters, every record that is
\* not excluded and has a tag T with lower(g) a contiguous substring of
\* lower(T) is in the listing of g.
C5_SubstringListed ==
    \A e \in DOMAIN paths :
        LET g == paths[e].params.tag
        IN  NoMeta(g) =>
                \A r \in Elems(allBlogs) :
                    ( /\ ~(r.data.draft /\ PROD)
                      /\ \E m \in DOMAIN r.data.tags :
                            IsSubstring(ToLowerCase(g), ToLowerCase(r.data.tags[m])) )
                    => r \in Elems(paths[e].props.blogs)

\* String.prototype.toUpperCase of the code units of this model: a-z map to
\* A-Z, U+212A is upper case already
ToUpperCase(s) ==
    [n \in DOMAIN s |->
        IF IndexIn(LowerAscii, s[n]) # 0
        THEN UpperAscii[IndexIn(LowerAscii, s[n])]
        ELSE s[n]]

\* the variants of a tag that differ from it in letter case only: its
\* lower-case and its upper-case form
CaseVariants(t) == {ToLowerCase(t), ToUpperCase(t)}

Slugs(blogs) == [n \in DOMAIN blogs |-> blogs[n].slug]

\* two outcomes generate the same pages with the same records in the same order
SamePages(o1, o2) ==
    /\ o1.kind = o2.kind
    /\ Len(o1.paths) = Len(o2.paths)
    /\ \A e \in DOMAIN o1.paths :
          /\ o1.paths[e].params.tag = o2.paths[e].params.tag
          /\ Slugs(o1.paths[e].props.blogs) = Slugs(o2.paths[e].props.blogs)

\* C6: replacing one tag of one record by a variant that differs in letter
\* case only changes neither the generated tag pages nor the membership or
\* the order of any listing.
C6_CaseInsensitive ==
    Finished =>
        \A n \in DOMAIN allBlogs : \A m \in DOMAIN allBlogs[n].data.tags :
            \A v \in CaseVariants(allBlogs[n].data.tags[m]) :
                SamePages(last,
                          GetStaticPaths([allBlogs EXCEPT ![n].data.tags[m] = v], PROD))

\* C7: getStaticPaths never ends with an exception.
C7_NeverThrows == pc # "thrown" /\ error = "none"

\* C8: the returned path list has exactly one entry per enumerated tag, the
\* tag params are pairwise distinct, and each entry carries the listing of
\* its own tag.
C8_OnePagePerTag ==
    pc = "returned" =>
        /\ Len(paths) = Cardinality(LowerTagSet(allBlogs))
        /\ { paths[e].params.tag : e \in DOMAIN paths } = LowerTagSet(allBlogs)
        /\ \A e, f \in DOMAIN paths :
              paths[e].params.tag = paths[f].params.tag => e = f
        /\ \A e \in DOMAIN paths :
              paths[e].props.blogs =
                  ArraySort(FilterBlogs(allBlogs, paths[e].params.tag, PROD, 1))

\* a call returned two or more pages of which one lists a record
C8_Witness ==
    /\ pc = "returned"
    /\ Len(paths) >= 2
    /\ \E e \in DOMAIN paths : paths[e].props.blogs # <<>>
    /\ \E n, k \in DOMAIN allBlogs :
          /\ n # k
          /\ LowerTagSet(<<allBlogs[n]>>) \cap LowerTagSet(<<allBlogs[k]>>) # {}

\* C9: once a call on the collection has completed, every later call on the
\* same collection in the same build mode completes with the same outcome:
\* the same pages, and for every page the same ordered listing.
C9_Deterministic == [][last.kind # "none" => last' = last]_vars

\* a second call has built the pages the first call returned
C9_Witness ==
    /\ last.kind = "returned"
    /\ pc = "pages"
    /\ j > Len(tags)
    /\ Len(paths) >= 2
    /\ paths = last.paths

react == <<"r","e","a","c","t">>

\* C10: for the scenario R = [A, B, C] the enumerated tags are "angular" and
\* "react", and in production mode the page of "angular" lists [B, A].
C10_Scenario ==
    allBlogs = ScenarioR =>
        /\ Enumerated => Elems(tags) = {angular, react}
        /\ (PROD /\ pc = "returned") =>
              /\ \E e \in DOMAIN paths : paths[e].params.tag = angular
              /\ \A e \in DOMAIN paths :
                    paths[e].params.tag = angular =>
                        paths[e].props.blogs = <<ScenarioR[2], ScenarioR[1]>>

\* the production build of the scenario has returned
C10_Witness ==
    /\ allBlogs = ScenarioR
    /\ PROD
    /\ pc = "returned"

----------------------------------------------------------------------------
BlogPathsComputed == pc # "blogPage"

FeedComputed == pc \notin {"blogPage", "feed"}

ListRendered == pc \notin {"blogPage", "feed", "list"}

NoTagsAnywhere == \A n \in DOMAIN allBlogs : allBlogs[n].data.tags = <<>>

\* C11: when the collection is empty or no record has a tag, the tag set is
\* empty and the call returns the empty path list; a record without tags is
\* in no listing.
C11_NoTagsNoPages ==
    /\ NoTagsAnywhere =>
          /\ Enumerated => tags = <<>>
          /\ Finished => (pc = "returned" /\ paths = <<>>)
    /\ \A e \in DOMAIN paths : \A r \in Elems(paths[e].props.blogs) :
          r.data.tags # <<>>

\* a collection with records, none of them tagged, has returned no page
C11_Witness ==
    /\ pc = "returned"
    /\ allBlogs # <<>>
    /\ NoTagsAnywhere
    /\ paths = <<>>

\* C12: the blog post paths are, in collection order, one per record that is
\* not a draft in production mode and one per record in any other mode.
C12_BlogPathsDraftRule ==
    BlogPathsComputed =>
        /\ \A e, f \in DOMAIN blogPaths :
              e < f => blogPaths[e].params.slug < blogPaths[f].params.slug
        /\ { blogPaths[e].params.slug : e \in DOMAIN blogPaths } =
              { n \in DOMAIN allBlogs : ~(allBlogs[n].data.draft /\ PROD) }
        /\ \A e \in DOMAIN blogPaths :
              blogPaths[e].props.entry = allBlogs[blogPaths[e].params.slug]
        /\ ~PROD => Len(blogPaths) = Len(allBlogs)

\* production mode: a draft was left out and a record behind it got its path
C12_Witness ==
    /\ BlogPathsComputed
    /\ PROD
    /\ \E n, k \in DOMAIN allBlogs :
          /\ n < k
          /\ allBlogs[n].data.draft
          /\ ~allBlogs[k].data.draft
    /\ blogPaths # <<>>

\* C13: no step of getStaticPaths changes the loaded collection, and an
\* iteration of the tag loop leaves the entries pushed before it as they are.
C13_InputUntouched ==
    [][ /\ allBlogs' = allBlogs
        /\ (pc = "pages" /\ pc' \in {"pages", "returned"}) =>
              \A e \in DOMAIN paths : paths'[e] = paths[e] ]_vars

\* a call returned two pages, one of them with a listing the sort put into
\* another order than the collection's, and the collection is in its order
C13_Witness ==
    /\ pc = "returned"
    /\ Len(paths) >= 2
    /\ \E e \in DOMAIN paths :
          LET blogs == paths[e].props.blogs
          IN  Len(blogs) >= 2 /\ blogs[1].slug > blogs[2].slug
    /\ \A n \in DOMAIN allBlogs : allBlogs[n].slug = n

\* C14: in production mode a tag that only draft records match still has
\* its page, and the listing of that page is empty.
C14_DraftOnlyTagEmptyPage ==
    (pc = "returned" /\ PROD) =>
        \A t \in LowerTagSet(allBlogs) :
            (\A r \in Elems(allBlogs) : TagMatched(r, t) => r.data.draft)
            => \E e \in DOMAIN paths :
                  /\ paths[e].params.tag = t
                  /\ paths[e].props.blogs = <<>>

\* a production build returned an empty page for a tag a draft record has,
\* next to a page that lists a record
C14_Witness ==
    /\ pc = "returned"
    /\ PROD
    /\ \E e, f \in DOMAIN paths :
          /\ paths[e].props.blogs = <<>>
          /\ paths[f].props.blogs # <<>>
          /\ \E r \in Elems(allBlogs) :
                r.data.draft /\ TagMatched(r, paths[e].params.tag)

\* C15 as amended: a record that the draft rule does not exclude is in the
\* listing of g exactly when g, used as the case-insensitive pattern, finds
\* a match in at least one of the record's own tags (the page's tag is the
\* pattern, the record's tag is the subject).
C15_QueryTagIsPattern ==
    \A e \in DOMAIN paths : \A r \in Elems(allBlogs) :
        ~(r.data.draft /\ PROD) =>
            ( r \in Elems(paths[e].props.blogs)
              <=> /\ RegExp(paths[e].params.tag).ok
                  /\ \E m \in DOMAIN r.data.tags :
                        Matches(r.data.tags[m], RegExp(paths[e].params.tag)) )

\* a page lists a record none of whose tags, taken as a pattern, finds a
\* match in the page's tag
C15_Witness ==
    \E e \in DOMAIN paths : \E r \in Elems(paths[e].props.blogs) :
        \A m \in DOMAIN r.data.tags :
            \/ ~RegExp(r.data.tags[m]).ok
            \/ ~Matches(paths[e].params.tag, RegExp(r.data.tags[m]))

\* C15 as stated: a record that the draft rule does not exclude is in the
\* listing of g exactly when one of its own tags, used as the pattern, finds
\* a match in g.
C15_RecordTagIsPattern ==
    \A e \in DOMAIN paths : \A r \in Elems(allBlogs) :
        ~(r.data.draft /\ PROD) =>
            ( r \in Elems(paths[e].props.blogs)
              <=> \E m \in DOMAIN r.data.tags :
                     /\ RegExp(r.data.tags[m]).ok
                     /\ Matches(paths[e].params.tag, RegExp(r.data.tags[m])) )

NonDraftSlugs == { n \in DOMAIN allBlogs : ~allBlogs[n].data.draft }

\* C16 as amended: in every build mode the feed's items are the records
\* with draft = false, one item each, in collection order; no sort by
\* publishedAt is applied.
C16_FeedNonDraftInCollectionOrder ==
    FeedComputed =>
        /\ { feedItems[a].link : a \in DOMAIN feedItems } = NonDraftSlugs
        /\ \A a, b \in DOMAIN feedItems :
              a < b => feedItems[a].link < feedItems[b].link
        /\ \A a \in DOMAIN feedItems :
              feedItems[a].pubDate = allBlogs[feedItems[a].link].data.publishedAt

\* the feed holds an earlier record in front of a later one, and a draft is
\* left out of it
C16_Witness ==
    /\ FeedComputed
    /\ \E a, b \in DOMAIN feedItems :
          a < b /\ feedItems[a].pubDate < feedItems[b].pubDate
    /\ \E n \in DOMAIN allBlogs : allBlogs[n].data.draft

\* C16 as stated: the feed's items are the non-draft records in descending
\* publishedAt order.
C16_FeedDateSorted ==
    FeedComputed =>
        /\ { feedItems[a].link : a \in DOMAIN feedItems } = NonDraftSlugs
        /\ \A a, b \in DOMAIN feedItems :
              a < b => feedItems[a].pubDate >= feedItems[b].pubDate

\* the orders the records of a collection of n entries can be loaded in
Orders(n) == { f \in [1..n -> 1..n] : \A a, b \in 1..n : f[a] = f[b] => a = b }

Reordered(R, f) == [k \in DOMAIN R |-> R[f[k]]]

\* C17: for every order P of the records of the collection, the enumerated
\* tag set of P is that of the collection, a call on P ends the same way,
\* and every page holds the same records.
C17_OrderIndependent ==
    \A f \in Orders(Len(allBlogs)) :
        LET P == Reordered(allBlogs, f)
            o == GetStaticPaths(P, PROD)
        IN  /\ Enumerated => Elems(EnumerateFrom(<<>>, P, 1)) = Elems(tags)
            /\ Finished =>
                  /\ o.kind = last.kind
                  /\ \A e \in DOMAIN last.paths : \E g \in DOMAIN o.paths :
                        /\ o.paths[g].params.tag = last.paths[e].params.tag
                        /\ Elems(o.paths[g].props.blogs) =
                              Elems(last.paths[e].props.blogs)

\* a call returned for a collection of two or more records with different
\* tags, of which a draft stands in front of a listed record
C17_Witness ==
    /\ pc = "returned"
    /\ \E n, k \in DOMAIN allBlogs :
          /\ n < k
          /\ allBlogs[n].data.draft
          /\ allBlogs[n].data.tags # allBlogs[k].data.tags
          /\ \E e \in DOMAIN paths : allBlogs[k] \in Elems(paths[e].props.blogs)

\* C18: in a returned path list every record that the draft rule does not
\* exclude is in the listing of the page of each of its lower-cased tags,
\* and outside production mode no page has an empty listing.
C18_TagReachesOwnPage ==
    pc = "returned" =>
        /\ \A e \in DOMAIN paths : \A r \in Elems(allBlogs) :
              ( /\ ~(r.data.draft /\ PROD)
                /\ \E m \in DOMAIN r.data.tags :
                      ToLowerCase(r.data.tags[m]) = paths[e].params.tag )
              => r \in Elems(paths[e].props.blogs)
        /\ ~PROD => \A e \in DOMAIN paths : paths[e].props.blogs # <<>>

\* C19: when the tag pages are generated, every tag link of every generated
\* blog post page targets a generated tag page whose listing holds the post.
C19_NoDanglingTagLinks ==
    pc = "returned" =>
        \A b \in DOMAIN blogPaths :
            LET entry == blogPaths[b].props.entry
            IN  \A m \in DOMAIN entry.data.tags :
                    \E e \in DOMAIN paths :
                        /\ paths[e].params.tag = ToLowerCase(entry.data.tags[m])
                        /\ entry \in Elems(paths[e].props.blogs)

\* C20: every record of every listing has a blog post path of the same build.
C20_ListedRecordsHavePages ==
    \A e \in DOMAIN paths : \A r \in Elems(paths[e].props.blogs) :
        \E b \in DOMAIN blogPaths :
            /\ blogPaths[b].params.slug = r.slug
            /\ blogPaths[b].props.entry = r

\* outside production mode a listing holds a draft record, which has its
\* blog post path
C20_Witness ==
    /\ ~PROD
    /\ \E e \in DOMAIN paths : \E r \in Elems(paths[e].props.blogs) :
          /\ r.data.draft
          /\ \E b \in DOMAIN blogPaths : blogPaths[b].params.slug = r.slug

RECURSIVE WithoutDrafts(_)
WithoutDrafts(seq) ==
    IF seq = <<>> THEN <<>>
    ELSE IF seq[1].data.draft THEN WithoutDrafts(Tail(seq))
         ELSE <<seq[1]>> \o WithoutDrafts(Tail(seq))

\* C21: for every generated page, the listing of production mode is the
\* listing of non-production mode with the draft records removed, the
\* other records in the same order.
C21_ProdIsNonProdWithoutDrafts ==
    \A e \in DOMAIN paths :
        LET other == TagPath(allBlogs, paths[e].params.tag, ~PROD).props.blogs
        IN  IF PROD
            THEN paths[e].props.blogs = WithoutDrafts(other)
            ELSE other = WithoutDrafts(paths[e].props.blogs)

\* a non-production listing holds a draft between or beside records that
\* stay in the production listing
C21_Witness ==
    /\ ~PROD
    /\ \E e \in DOMAIN paths :
          /\ \E a \in DOMAIN paths[e].props.blogs : paths[e].props.blogs[a].data.draft
          /\ Len(WithoutDrafts(paths[e].props.blogs)) >= 2

Occurrences(seq, x) == Cardinality({ a \in DOMAIN seq : seq[a] = x })

\* C22: in every listing each record of the collection occurs once when the
\* draft rule keeps it and the page's tag matches it, and not at all
\* otherwise, however many of its tags match.
C22_NoRepeats ==
    \A e \in DOMAIN paths : \A n \in DOMAIN allBlogs :
        Occurrences(paths[e].props.blogs, allBlogs[n]) =
            IF ~(allBlogs[n].data.draft /\ PROD)
               /\ TagMatched(allBlogs[n], paths[e].params.tag)
            THEN 1 ELSE 0

\* a listed record has two tags that the page's tag matches
C22_Witness ==
    \E e \in DOMAIN paths : \E r \in Elems(paths[e].props.blogs) :
        \E m, k \in DOMAIN r.data.tags :
            /\ m < k
            /\ Matches(r.data.tags[m], RegExp(paths[e].params.tag))
            /\ Matches(r.data.tags[k], RegExp(paths[e].params.tag))

\* C23: in every listing records of equal publishedAt stand in their input
\* order (the slug of a record is its position in the collection).
C23_TiesKeepInputOrder ==
    \A e \in DOMAIN paths :
        LET l == paths[e].props.blogs
        IN  \A a, b \in DOMAIN l :
                (a < b /\ l[a].data.publishedAt = l[b].data.publishedAt)
                    => l[a].slug < l[b].slug

\* a listing holds two records of the same publishedAt
C23_Witness ==
    \E e \in DOMAIN paths :
        \E a, b \in DOMAIN paths[e].props.blogs :
            /\ a < b
            /\ paths[e].props.blogs[a].data.publishedAt =
                  paths[e].props.blogs[b].data.publishedAt

FeedSlugs == { feedItems[a].link : a \in DOMAIN feedItems }

BlogPathSlugs == { blogPaths[b].params.slug : b \in DOMAIN blogPaths }

\* C24: in production mode the records with a feed item are the records
\* with a blog post path; in non-production mode a draft record has a blog
\* post path, is in the listing of every page whose tag matches it, and has
\* no feed item.
C24_FeedAgreesInProdOnly ==
    FeedComputed =>
        /\ PROD => FeedSlugs = BlogPathSlugs
        /\ ~PROD => \A r \in Elems(allBlogs) :
              r.data.draft =>
                  /\ r.slug \in BlogPathSlugs
                  /\ r.slug \notin FeedSlugs
                  /\ \A e \in DOMAIN paths :
                        TagMatched(r, paths[e].params.tag)
                            => r \in Elems(paths[e].props.blogs)

\* outside production mode a draft record has a blog post path and an entry
\* in a listing, and no feed item
C24_Witness ==
    /\ ~PROD
    /\ pc = "returned"
    /\ \E r \in Elems(allBlogs) :
          /\ r.data.draft
          /\ r.slug \in BlogPathSlugs
          /\ r.slug \notin FeedSlugs
          /\ \E e \in DOMAIN paths : r \in Elems(paths[e].props.blogs)

OmitsDraft == { k \in DOMAIN frontMatter : "draft" \notin DOMAIN frontMatter[k] }

OmitsTags == { k \in DOMAIN frontMatter : "tags" \notin DOMAIN frontMatter[k] }

\* C25: a record whose front matter omits draft has draft = false and is
\* published in production mode: it has a blog post path, a feed item and
\* its place in the listing of every page whose tag matches it.  A record
\* whose front matter omits tags has the empty tags list, adds nothing to
\* the tag set and is in no listing.
C25_SchemaDefaults ==
    /\ \A k \in OmitsDraft :
          /\ allBlogs[k].data.draft = FALSE
          /\ PROD =>
                /\ BlogPathsComputed => k \in BlogPathSlugs
                /\ FeedComputed => k \in FeedSlugs
                /\ \A e \in DOMAIN paths :
                      TagMatched(allBlogs[k], paths[e].params.tag)
                          => allBlogs[k] \in Elems(paths[e].props.blogs)
    /\ \A k \in OmitsTags :
          /\ allBlogs[k].data.tags = <<>>
          /\ \A e \in DOMAIN paths : allBlogs[k] \notin Elems(paths[e].props.blogs)
    /\ Enumerated =>
          Elems(tags) =
              UNION { { ToLowerCase(frontMatter[k].tags[m]) :
                          m \in DOMAIN frontMatter[k].tags }
                      : k \in DOMAIN frontMatter \ OmitsTags }

\* in production mode a call returned a page that lists a record whose
\* front matter omits draft, next to a record whose front matter omits tags
C25_Witness ==
    /\ PROD
    /\ pc = "returned"
    /\ \E k \in OmitsDraft :
          /\ k \in BlogPathSlugs
          /\ k \in FeedSlugs
          /\ \E e \in DOMAIN paths : allBlogs[k] \in Elems(paths[e].props.blogs)
    /\ OmitsTags # {}

\* C26: a list item has its primary-tag link exactly when the record's
\* tags list is not empty; the link then targets the lower-cased first tag,
\* no element was read from an empty list, and once the tags are enumerated
\* the target is one of them.
C26_PrimaryTagLink ==
    ListRendered =>
        \A k \in DOMAIN items :
            /\ items[k].tagLink # <<>> <=> allBlogs[k].data.tags # <<>>
            /\ items[k].tagLink # <<>> =>
                  /\ items[k].tagLink[1] # TypeError
                  /\ items[k].tagLink[1] = ToLowerCase(allBlogs[k].data.tags[1])
                  /\ Enumerated => items[k].tagLink[1] \in Elems(tags)

\* the list holds an item with a primary-tag link and one without, and the
\* tags are enumerated
C26_Witness ==
    /\ Enumerated
    /\ \E k, n \in DOMAIN items :
          /\ items[k].tagLink # <<>>
          /\ items[n].tagLink = <<>>

====
